---- MODULE Spec2Model ----
(***************************************************************************)
(* Model of Calculator.py: an interactive uncertainty calculator.          *)
(*                                                                         *)
(* Python floats are modelled as decimal fixed-point numbers: the integer  *)
(* n stands for n / Scale.  A float is a record [k, v]: k = "fin" with the *)
(* scaled integer v, k = "inf" with the sign v, k = "nan", k = "zoo"       *)
(* (SymPy's complex infinity, which only SymPy arithmetic produces), or k  *)
(* the name of the Python exception the computation raised.  A raised      *)
(* exception is absorbing: the statements after the raise do not run.      *)
(* Finite results beyond MaxFloat become infinities, as IEEE results       *)
(* beyond the largest double do, and results below the resolution become   *)
(* zero, as IEEE underflow does.                                           *)
(***************************************************************************)
EXTENDS Integers, Sequences, FiniteSets, TLC

\* One unit of the float model is 1 / Scale.
Scale == 1000
\* The largest finite float of the model, in units (39.999).
MaxFloat == 39999

Exceptions == {"OverflowError", "ValueError", "TypeError", "ZeroDivisionError"}

Fin(n) == [k |-> "fin", v |-> n]
PInf == [k |-> "inf", v |-> 1]
NInf == [k |-> "inf", v |-> -1]
NaN == [k |-> "nan", v |-> 0]
Zoo == [k |-> "zoo", v |-> 0]
Raise(e) == [k |-> e, v |-> 0]

IsExc(a) == a.k \in Exceptions
IsFin(a) == a.k = "fin"
IsZero(a) == a.k = "fin" /\ a.v = 0

Sign(n) == IF n > 0 THEN 1 ELSE IF n < 0 THEN -1 ELSE 0
AbsInt(n) == IF n < 0 THEN -n ELSE n

\* A finite result, or the infinity it overflows to.
Norm(n) == IF n > MaxFloat THEN PInf ELSE IF n < -MaxFloat THEN NInf ELSE Fin(n)

\* p / q for q > 0, rounded to the nearest integer, ties to even.
RoundDiv(p, q) ==
    LET fl == p \div q
        r == p % q
    IN IF 2 * r < q THEN fl
       ELSE IF 2 * r > q THEN fl + 1
       ELSE IF fl % 2 = 0 THEN fl ELSE fl + 1

RECURSIVE ISqrtBetween(_, _, _)
\* The largest r in lo..hi with r * r <= x.
ISqrtBetween(x, lo, hi) ==
    IF lo >= hi THEN lo
    ELSE LET mid == (lo + hi + 1) \div 2
         IN IF mid * mid <= x THEN ISqrtBetween(x, mid, hi)
            ELSE ISqrtBetween(x, lo, mid - 1)

\* The square root of x >= 0, rounded to the nearest integer.
ISqrt(x) ==
    LET r == ISqrtBetween(x, 0, 46340)
    IN IF x - r * r > r THEN r + 1 ELSE r

\* a + b on floats.
FAdd(a, b) ==
    IF IsExc(a) THEN a
    ELSE IF IsExc(b) THEN b
    ELSE IF a.k = "nan" \/ b.k = "nan" THEN NaN
    ELSE IF a.k = "inf" /\ b.k = "inf" THEN (IF a.v = b.v THEN a ELSE NaN)
    ELSE IF a.k = "inf" THEN a
    ELSE IF b.k = "inf" THEN b
    ELSE Norm(a.v + b.v)

\* a * b on floats.
FMul(a, b) ==
    IF IsExc(a) THEN a
    ELSE IF IsExc(b) THEN b
    ELSE IF a.k = "nan" \/ b.k = "nan" THEN NaN
    ELSE IF a.k = "inf" \/ b.k = "inf"
         THEN (IF IsZero(a) \/ IsZero(b) THEN NaN
               ELSE IF Sign(a.v) * Sign(b.v) > 0 THEN PInf ELSE NInf)
    ELSE Norm(RoundDiv(a.v * b.v, Scale))

\* a / b on floats; Python raises ZeroDivisionError for b == 0.
FDiv(a, b) ==
    IF IsExc(a) THEN a
    ELSE IF IsExc(b) THEN b
    ELSE IF IsZero(b) THEN Raise("ZeroDivisionError")
    ELSE IF a.k = "nan" \/ b.k = "nan" THEN NaN
    ELSE IF a.k = "inf" /\ b.k = "inf" THEN NaN
    ELSE IF a.k = "inf" THEN (IF Sign(a.v) * Sign(b.v) > 0 THEN PInf ELSE NInf)
    ELSE IF b.k = "inf" THEN Fin(0)
    ELSE Norm(Sign(b.v) * RoundDiv(a.v * Scale, AbsInt(b.v)))

\* abs(a).
FAbs(a) ==
    IF IsExc(a) \/ a.k = "nan" THEN a
    ELSE IF a.k = "inf" THEN PInf
    ELSE Fin(AbsInt(a.v))

\* a ** 2: float power raises OverflowError where * would give an infinity.
FSq(a) ==
    IF IsExc(a) \/ a.k = "nan" THEN a
    ELSE IF a.k = "inf" THEN PInf
    ELSE IF RoundDiv(a.v * a.v, Scale) > MaxFloat THEN Raise("OverflowError")
    ELSE Fin(RoundDiv(a.v * a.v, Scale))

\* a ** 0.5 for a >= 0 (a sum of squares is never negative).
FSqrt(a) ==
    IF IsExc(a) \/ a.k = "nan" THEN a
    ELSE IF a.k = "inf" THEN (IF a.v > 0 THEN PInf ELSE Raise("TypeError"))
    ELSE IF a.v < 0 THEN Raise("TypeError")
    ELSE Fin(ISqrt(a.v * Scale))

\* a != 0 as Python decides it: nan and the infinities differ from 0.
NonZero(a) == ~IsZero(a)

RECURSIVE Pow10(_)
Pow10(m) == IF m <= 0 THEN 1 ELSE 10 * Pow10(m - 1)

RECURSIVE Log10Floor(_)
\* floor(log10(u)) for an integer u >= 1.
Log10Floor(u) == IF u < 10 THEN 0 ELSE 1 + Log10Floor(u \div 10)

\* round_to_n_sig_figs without the value == 0 guard: log10(0) raises.
round_to_n_sig_figs_no_zero_guard(value, n) ==
    IF IsExc(value) THEN value
    ELSE IF IsZero(value) \/ value.k = "nan" THEN Raise("ValueError")
    ELSE IF value.k = "inf" THEN Raise("OverflowError")
    ELSE LET magnitude == Log10Floor(AbsInt(value.v)) - Log10Floor(Scale)
             decimal_places == magnitude - n + 1
             step == Pow10(decimal_places + Log10Floor(Scale))
             rounded == RoundDiv(value.v, step) * step
         IN IF AbsInt(rounded) > MaxFloat THEN Raise("OverflowError")
            ELSE Fin(rounded)

\* round_to_n_sig_figs(value, n): math.floor raises on nan (ValueError) and
\* on an infinity (OverflowError); round raises OverflowError when the
\* rounded value is too large to represent.
round_to_n_sig_figs(value, n) ==
    IF IsExc(value) THEN value
    ELSE IF IsZero(value) THEN Fin(0)
    ELSE IF value.k = "nan" THEN Raise("ValueError")
    ELSE IF value.k = "inf" THEN Raise("OverflowError")
    ELSE LET magnitude == Log10Floor(AbsInt(value.v)) - Log10Floor(Scale)
             decimal_places == magnitude - n + 1
             step == Pow10(decimal_places + Log10Floor(Scale))
             rounded == RoundDiv(value.v, step) * step
         IN IF AbsInt(rounded) > MaxFloat THEN Raise("OverflowError")
            ELSE Fin(rounded)

\* float(text): the numbers the model's users type; any other text raises
\* ValueError.
PyFloat(text) ==
    CASE text = "0" -> Fin(0)
      [] text = "0.004" -> Fin(4)
      [] text = "0.1" -> Fin(100)
      [] text = "0.2" -> Fin(200)
      [] text = "0.5" -> Fin(500)
      [] text = "1" -> Fin(1000)
      [] text = "2" -> Fin(2000)
      [] text = "3" -> Fin(3000)
      [] text = "5" -> Fin(5000)
      [] text = "-1" -> Fin(-1000)
      [] text = "inf" -> PInf
      [] text = "nan" -> NaN
      [] OTHER -> Raise("ValueError")

(***************************************************************************)
(* SymPy expressions: trees of numbers, symbols, the constants pi and e,   *)
(* sums, products and integer powers.  SymPy writes x - y as x + (-1)*y    *)
(* and x / y as x * y^(-1), and folds the neutral elements as it builds a  *)
(* tree.                                                                   *)
(***************************************************************************)
None == [op |-> "none"]
Num(n) == [op |-> "num", v |-> n]
Sym(name) == [op |-> "sym", name |-> name]
Const(name) == [op |-> "const", name |-> name]
ZooExpr == [op |-> "zoo"]

IsNum(e, n) == e.op = "num" /\ e.v = n

MkAdd(l, r) ==
    IF IsNum(l, 0) THEN r
    ELSE IF IsNum(r, 0) THEN l
    ELSE IF l.op = "num" /\ r.op = "num" THEN Num(l.v + r.v)
    ELSE [op |-> "add", l |-> l, r |-> r]

MkMul(l, r) ==
    IF IsNum(l, 0) \/ IsNum(r, 0) THEN Num(0)
    ELSE IF IsNum(l, Scale) THEN r
    ELSE IF IsNum(r, Scale) THEN l
    ELSE IF l.op = "num" /\ r.op = "num" THEN Num(RoundDiv(l.v * r.v, Scale))
    ELSE [op |-> "mul", l |-> l, r |-> r]

MkPow(b, n) ==
    IF n = 0 THEN Num(Scale)
    ELSE IF n = 1 THEN b
    ELSE IF IsNum(b, 0) /\ n < 0 THEN ZooExpr
    ELSE [op |-> "pow", b |-> b, n |-> n]

\* parse_expr with convert_xor and local_dict {pi, e}; a text that is no
\* expression raises inside parse_expr and get_equation returns None.
parse_expr(raw_eq) ==
    CASE raw_eq = "x + y" -> MkAdd(Sym("x"), Sym("y"))
      [] raw_eq = "x - y" -> MkAdd(Sym("x"), MkMul(Num(-Scale), Sym("y")))
      [] raw_eq = "x * y" -> MkMul(Sym("x"), Sym("y"))
      [] raw_eq = "x / y" -> MkMul(Sym("x"), MkPow(Sym("y"), -1))
      [] raw_eq = "1 / x" -> MkMul(Num(Scale), MkPow(Sym("x"), -1))
      [] raw_eq = "x ^ 2" -> MkPow(Sym("x"), 2)
      [] raw_eq = "pi * 2" -> MkMul(Const("pi"), Num(2 * Scale))
      [] raw_eq = "1 / 0" -> MkMul(Num(Scale), MkPow(Num(0), -1))
      [] OTHER -> None

RECURSIVE free_symbols(_)
free_symbols(e) ==
    CASE e.op = "sym" -> {e.name}
      [] e.op = "add" -> free_symbols(e.l) \cup free_symbols(e.r)
      [] e.op = "mul" -> free_symbols(e.l) \cup free_symbols(e.r)
      [] e.op = "pow" -> free_symbols(e.b)
      [] OTHER -> {}

RECURSIVE diff(_, _)
\* sympy.diff(expr, var): linearity, the product rule and the power rule.
diff(e, var) ==
    CASE e.op = "sym" -> IF e.name = var THEN Num(Scale) ELSE Num(0)
      [] e.op = "add" -> MkAdd(diff(e.l, var), diff(e.r, var))
      [] e.op = "mul" -> MkAdd(MkMul(diff(e.l, var), e.r), MkMul(e.l, diff(e.r, var)))
      [] e.op = "pow" -> MkMul(MkMul(Num(e.n * Scale), MkPow(e.b, e.n - 1)), diff(e.b, var))
      [] OTHER -> Num(0)

\* Sums and products of SymPy numbers: zoo joins the IEEE cases.
SymAdd(a, b) ==
    IF a.k = "zoo" \/ b.k = "zoo"
    THEN (IF a.k = "fin" \/ b.k = "fin" THEN Zoo ELSE NaN)
    ELSE FAdd(a, b)

SymMul(a, b) ==
    IF a.k = "zoo" \/ b.k = "zoo"
    THEN (IF IsZero(a) \/ IsZero(b) \/ a.k = "nan" \/ b.k = "nan" THEN NaN ELSE Zoo)
    ELSE FMul(a, b)

\* 1 / a on SymPy numbers: 1 / 0 is zoo.
SymRecip(a) ==
    IF a.k = "nan" THEN NaN
    ELSE IF IsZero(a) THEN Zoo
    ELSE IF a.k \in {"inf", "zoo"} THEN Fin(0)
    ELSE FDiv(Fin(Scale), a)

RECURSIVE SymPowInt(_, _)
SymPowInt(a, n) ==
    IF n = 0 THEN Fin(Scale)
    ELSE IF n < 0 THEN SymRecip(SymPowInt(a, -n))
    ELSE IF n = 1 THEN a
    ELSE SymMul(a, SymPowInt(a, n - 1))

ConstValue(name) == IF name = "pi" THEN Fin(3142) ELSE Fin(2718)

RECURSIVE subs(_, _)
\* expr.subs(values), evaluated: the SymPy number the expression becomes.
subs(e, values) ==
    CASE e.op = "num" -> Fin(e.v)
      [] e.op = "sym" -> values[e.name]
      [] e.op = "const" -> ConstValue(e.name)
      [] e.op = "zoo" -> Zoo
      [] e.op = "add" -> SymAdd(subs(e.l, values), subs(e.r, values))
      [] e.op = "mul" -> SymMul(subs(e.l, values), subs(e.r, values))
      [] e.op = "pow" -> SymPowInt(subs(e.b, values), e.n)

\* float(sympy number): nan and the infinities convert, zoo raises TypeError.
sympy_float(a) == IF a.k = "zoo" THEN Raise("TypeError") ELSE a

(***************************************************************************)
(* The calculations.  A printed result is a record [kind, val, abs, frac]; *)
(* kind "none" means that nothing was printed.                             *)
(***************************************************************************)
NoOutput == [kind |-> "none", val |-> Fin(0), abs |-> Fin(0), frac |-> Fin(0)]
Printed(kind, val, abs, frac) == [kind |-> kind, val |-> val, abs |-> abs, frac |-> frac]

\* The first exception raised in a sequence of computed floats, "none" if
\* none was.
RECURSIVE FirstRaised(_)
FirstRaised(fs) ==
    IF fs = <<>> THEN "none"
    ELSE IF IsExc(Head(fs)) THEN Head(fs).k
    ELSE FirstRaised(Tail(fs))

RECURSIVE variance_after(_, _, _, _, _)
\* The variance accumulated by the first i rounds of the loop over values.
variance_after(expr, order, values, uncertainties, i) ==
    IF i = 0 THEN Fin(0)
    ELSE LET var == order[i]
             partial_derivative == diff(expr, var)
             partial_val == sympy_float(subs(partial_derivative, values))
             sigma == uncertainties[var]
             term == FSq(FMul(partial_val, sigma))
         IN FAdd(variance_after(expr, order, values, uncertainties, i - 1), term)

\* calculate_uncertainty with the square root forgotten.
calculate_uncertainty_no_sqrt(expr, order, values, uncertainties) ==
    LET calculated_value == sympy_float(subs(expr, values))
        variance == variance_after(expr, order, values, uncertainties, Len(order))
    IN [val |-> calculated_value,
        abs_unc |-> IF IsExc(calculated_value) THEN calculated_value ELSE variance]

\* calculate_uncertainty with the terms added linearly, not in quadrature.
RECURSIVE linear_after(_, _, _, _, _)
linear_after(expr, order, values, uncertainties, i) ==
    IF i = 0 THEN Fin(0)
    ELSE FAdd(linear_after(expr, order, values, uncertainties, i - 1),
              FAbs(FMul(sympy_float(subs(diff(expr, order[i]), values)),
                        uncertainties[order[i]])))

calculate_uncertainty_linear(expr, order, values, uncertainties) ==
    LET calculated_value == sympy_float(subs(expr, values))
    IN [val |-> calculated_value,
        abs_unc |-> IF IsExc(calculated_value) THEN calculated_value
                    ELSE linear_after(expr, order, values, uncertainties, Len(order))]

\* calculate_uncertainty(expr, values, uncertainties); order is the order in
\* which the dict values was filled.  An exception raised by the value
\* leaves the loop unexecuted.
calculate_uncertainty(expr, order, values, uncertainties) ==
    LET calculated_value == sympy_float(subs(expr, values))
        variance == variance_after(expr, order, values, uncertainties, Len(order))
        absolute_uncertainty == FSqrt(variance)
    IN [val |-> calculated_value,
        abs_unc |-> IF IsExc(calculated_value) THEN calculated_value
                    ELSE absolute_uncertainty]

\* The fractional uncertainty computed from the rounded value and the
\* rounded absolute uncertainty.
fractional_uncertainty_of_rounded(val, abs_unc) ==
    LET val_rounded == round_to_n_sig_figs(val, 3)
        abs_unc_rounded == round_to_n_sig_figs(abs_unc, 3)
    IN IF IsExc(val_rounded) THEN val_rounded
       ELSE IF IsExc(abs_unc_rounded) THEN abs_unc_rounded
       ELSE IF NonZero(val_rounded) THEN FDiv(abs_unc_rounded, FAbs(val_rounded))
       ELSE Fin(0)

\* if val != 0: frac_unc = abs_unc / abs(val) else: frac_unc = 0.0
fractional_uncertainty(val, abs_unc) ==
    IF IsExc(val) THEN val
    ELSE IF IsExc(abs_unc) THEN abs_unc
    ELSE IF NonZero(val) THEN FDiv(abs_unc, FAbs(val))
    ELSE Fin(0)

\* The three roundings and the three print calls that end a calculation:
\* [raised, val, abs_unc, frac_unc, out].  Nothing is printed when any
\* step before the first print raised.
Finish(kind, val, abs_unc) ==
    LET frac_unc == fractional_uncertainty(val, abs_unc)
        val_rounded == round_to_n_sig_figs(val, 3)
        abs_unc_rounded == round_to_n_sig_figs(abs_unc, 3)
        frac_unc_rounded == round_to_n_sig_figs(frac_unc, 3)
        raised == FirstRaised(<<val, abs_unc, frac_unc, val_rounded,
                                abs_unc_rounded, frac_unc_rounded>>)
    IN [raised |-> raised, val |-> val, abs_unc |-> abs_unc, frac_unc |-> frac_unc,
        out |-> IF raised = "none"
                THEN Printed(kind, val_rounded, abs_unc_rounded, frac_unc_rounded)
                ELSE NoOutput]

\* The try block of main with a handler that prints the three lines all the
\* same, nan standing for what was not computed.
equation_calculation_prints_anyway(expr, order, values, uncertainties) ==
    LET r == calculate_uncertainty(expr, order, values, uncertainties)
        f == Finish("formula", r.val, r.abs_unc)
        Shown(a) == IF IsExc(a) THEN NaN ELSE a
    IN IF f.raised = "none" THEN f
       ELSE [f EXCEPT !.out = Printed("formula", Shown(f.val), Shown(f.abs_unc),
                                      Shown(f.frac_unc))]

\* The try block of main: calculate_uncertainty, the fractional uncertainty,
\* the roundings and the prints.
equation_calculation(expr, order, values, uncertainties) ==
    LET r == calculate_uncertainty(expr, order, values, uncertainties)
    IN Finish("formula", r.val, r.abs_unc)

\* The branch of main for a formula without free symbols: the value is
\* printed as evaluated, the two uncertainties as the literal 0.0.
constant_calculation(expr) ==
    LET val == sympy_float(subs(expr, <<>>))
    IN [raised |-> FirstRaised(<<val>>), val |-> val, abs_unc |-> Fin(0),
        frac_unc |-> Fin(0),
        out |-> IF IsExc(val) THEN NoOutput
                ELSE Printed("constant", val, Fin(0), Fin(0))]

RECURSIVE sum(_)
\* sum(list): 0 + list[0] + list[1] + ...
sum(list) ==
    IF list = <<>> THEN Fin(0)
    ELSE FAdd(sum(SubSeq(list, 1, Len(list) - 1)), list[Len(list)])

RECURSIVE product(_)
\* val = 1; for v in values: val *= v
product(values) ==
    IF values = <<>> THEN Fin(Scale)
    ELSE FMul(product(SubSeq(values, 1, Len(values) - 1)), values[Len(values)])

Min(a, b) == IF a < b THEN a ELSE b

RECURSIVE rel_unc_sq_unguarded(_, _, _)
\* The loop over zip(values, uncertainties) without the v != 0 test.
rel_unc_sq_unguarded(values, uncertainties, i) ==
    IF i = 0 THEN Fin(0)
    ELSE FAdd(rel_unc_sq_unguarded(values, uncertainties, i - 1),
              FSq(FDiv(uncertainties[i], FAbs(values[i]))))

RECURSIVE rel_unc_sq_after(_, _, _)
\* rel_unc_sq after the first i rounds of the loop over
\* zip(values, uncertainties).
rel_unc_sq_after(values, uncertainties, i) ==
    IF i = 0 THEN Fin(0)
    ELSE LET before == rel_unc_sq_after(values, uncertainties, i - 1)
         IN IF NonZero(values[i])
            THEN FAdd(before, FSq(FDiv(uncertainties[i], FAbs(values[i]))))
            ELSE before

\* The computation of values_only_mode once both lists are read.
values_only_calculation(choice, values, uncertainties) ==
    IF choice = "1"
    THEN Finish("sum", sum(values), sum(uncertainties))
    ELSE LET val == product(values)
             rel_unc_sq == rel_unc_sq_after(values, uncertainties,
                                            Min(Len(values), Len(uncertainties)))
             rel_unc == FSqrt(rel_unc_sq)
             abs_unc == FMul(FAbs(val), rel_unc)
         IN Finish("product", val, abs_unc)

(***************************************************************************)
(* The interactive program.  pc is the input() call the process waits at:  *)
(*   "menu"       Choose mode (1 or 2)                     main            *)
(*   "equation"   Enter your equation                      get_equation    *)
(*   "inputs"     Enter value / uncertainty for a symbol   get_user_inputs *)
(*   "again"      Do you want another calculation ...      main            *)
(*   "vo_choice"  Choose operation type (1 or 2)           values_only_mode*)
(*   "vo_values"  Enter your values                        values_only_mode*)
(*   "vo_uncs"    Enter the uncertainties                  values_only_mode*)
(*   "return"     Return to main menu?                     main            *)
(* or "exited" after the goodbye line, or "crashed" when an exception no   *)
(* handler catches has ended the process (exc names it).                   *)
(* The locals of a finished calculation are dead once the next one starts  *)
(* and are cleared there.                                                  *)
(***************************************************************************)
VARIABLES pc, raw_eq, expr, todo, values, uncertainties, choice, vlist, ulist,
          calc, out, err, exc, arg, res

vars == <<pc, raw_eq, expr, todo, values, uncertainties, choice, vlist, ulist,
          calc, out, err, exc, arg, res>>

\* The longest list typed in values-only mode, and the longest sum compared.
MaxLen == 2
\* The largest number of significant figures asked of the rounder.
MaxSigFigs == 4
\* The rounder is applied to every value from -MaxRounded to MaxRounded units.
MaxRounded == 10100

MenuTexts == {"1", "2", "3"}
EquationTexts == {"x + y", "x - y", "x * y", "x / y", "1 / x", "x ^ 2",
                  "pi * 2", "1 / 0", "x +"}
ValueTexts == {"0", "2", "3", "-1", "inf", "abc"}
UncertaintyTexts == {"0", "0.1", "0.2", "5", "-1", "nan"}
ListValueTexts == {"0", "0.004", "1", "5", "-1", "inf", "abc"}
ListUncertaintyTexts == {"0", "0.5", "1", "5", "-1", "nan", "abc"}
YesNoTexts == {"yes", "y", "no", "n", "maybe"}

NoCalc == [val |-> Fin(0), abs_unc |-> Fin(0), frac_unc |-> Fin(0)]
Locals(f) == [val |-> f.val, abs_unc |-> f.abs_unc, frac_unc |-> f.frac_unc]

\* The lists of at most n texts from S, as input().strip().split() leaves them.
RECURSIVE SeqsUpTo(_, _)
SeqsUpTo(S, n) ==
    IF n = 0 THEN {<<>>}
    ELSE LET shorter == SeqsUpTo(S, n - 1)
         IN shorter \cup {Append(q, t) : q \in {r \in shorter : Len(r) = n - 1}, t \in S}

\* [float(x) for x in texts]
Floats(texts) == [i \in 1..Len(texts) |-> PyFloat(texts[i])]

\* The symbol names of the model in the order sorted(..., key=name) gives.
SymbolNames == <<"x", "x1", "x2", "x3", "x4", "y">>

\* sorted(variables, key=lambda s: s.name)
SortedSeq(S) == SelectSeq(SymbolNames, LAMBDA name : name \in S)

Init ==
    /\ pc = "menu"
    /\ raw_eq = ""
    /\ expr = None
    /\ todo = <<>>
    /\ values = <<>>
    /\ uncertainties = <<>>
    /\ choice = ""
    /\ vlist = <<>>
    /\ ulist = <<>>
    /\ calc = NoCalc
    /\ out = NoOutput
    /\ err = "none"
    /\ exc = "none"
    /\ arg = <<>>
    /\ res = <<>>

\* main, lines 165-171: the mode prompt.
ChooseMode(mode) ==
    /\ pc = "menu"
    /\ IF mode = "1" THEN pc' = "equation" /\ err' = "none"
       ELSE IF mode = "2" THEN pc' = "vo_choice" /\ err' = "none"
       ELSE pc' = "menu" /\ err' = "Invalid choice"
    /\ raw_eq' = "" /\ expr' = None /\ todo' = <<>>
    /\ values' = <<>> /\ uncertainties' = <<>>
    /\ choice' = "" /\ vlist' = <<>> /\ ulist' = <<>>
    /\ calc' = NoCalc /\ out' = NoOutput
    /\ UNCHANGED <<exc, arg, res>>

\* main, lines 173-186, with get_equation: the equation prompt, and the
\* whole calculation when the formula has no free symbols.
EnterEquation(text) ==
    /\ pc = "equation"
    /\ raw_eq' = text
    /\ expr' = parse_expr(text)
    /\ values' = <<>> /\ uncertainties' = <<>>
    /\ IF expr' = None
       THEN /\ pc' = "equation" /\ err' = "Error parsing equation"
            /\ todo' = <<>> /\ calc' = NoCalc /\ out' = NoOutput
            /\ exc' = exc
       ELSE IF free_symbols(expr') = {}
       THEN LET f == constant_calculation(expr')
            IN /\ todo' = <<>> /\ calc' = Locals(f) /\ out' = f.out
               /\ exc' = f.raised
               /\ pc' = IF f.raised = "none" THEN "again" ELSE "crashed"
               /\ err' = "none"
       ELSE /\ pc' = "inputs" /\ err' = "none"
            /\ todo' = SortedSeq(free_symbols(expr'))
            /\ calc' = NoCalc /\ out' = NoOutput /\ exc' = exc
    /\ UNCHANGED <<choice, vlist, ulist, arg, res>>

\* get_user_inputs, lines 50-59, and after the last symbol main, lines
\* 190-208: the value and the uncertainty of the next symbol.
EnterVariable(vtext, utext) ==
    /\ pc = "inputs"
    /\ LET var == Head(todo)
           val == PyFloat(vtext)
           unc == PyFloat(utext)
       IN IF IsExc(val) \/ IsExc(unc)
          THEN /\ err' = "Invalid input"
               /\ UNCHANGED <<pc, todo, values, uncertainties, calc, out>>
          ELSE /\ values' = (var :> val) @@ values
               /\ uncertainties' = (var :> unc) @@ uncertainties
               /\ todo' = Tail(todo)
               /\ IF Tail(todo) # <<>>
                  THEN /\ err' = "none"
                       /\ UNCHANGED <<pc, calc, out>>
                  ELSE LET f == equation_calculation(expr, SortedSeq(free_symbols(expr)),
                                                     values', uncertainties')
                       IN /\ pc' = "again"
                          /\ calc' = Locals(f)
                          /\ out' = f.out
                          /\ err' = IF f.raised = "none" THEN "none"
                                    ELSE "An error occurred during calculation"
    /\ UNCHANGED <<raw_eq, expr, choice, vlist, ulist, exc, arg, res>>

\* main, lines 211-222: another calculation in this mode?
AnotherCalculation(answer) ==
    /\ pc = "again"
    /\ IF answer \in {"yes", "y"} THEN pc' = "equation" /\ err' = "none"
       ELSE IF answer \in {"no", "n"} THEN pc' = "return" /\ err' = "none"
       ELSE pc' = "again" /\ err' = "Please enter yes or no"
    /\ UNCHANGED <<raw_eq, expr, todo, values, uncertainties, choice, vlist, ulist,
                   calc, out, exc, arg, res>>

\* values_only_mode, lines 94-98: the operation prompt.
ChooseOperation(text) ==
    /\ pc = "vo_choice"
    /\ IF text \in {"1", "2"}
       THEN pc' = "vo_values" /\ choice' = text /\ err' = "none"
       ELSE pc' = "vo_choice" /\ choice' = choice /\ err' = "Invalid choice"
    /\ UNCHANGED <<raw_eq, expr, todo, values, uncertainties, vlist, ulist,
                   calc, out, exc, arg, res>>

\* if not values: raise ValueError (line 104)
values_accepted(list) == list # <<>>

\* values_only_mode, lines 101-108: the list of values.
EnterValues(texts) ==
    /\ pc = "vo_values"
    /\ LET list == Floats(texts)
       IN IF (\E i \in 1..Len(list) : IsExc(list[i])) \/ ~values_accepted(list)
          THEN pc' = "vo_values" /\ vlist' = vlist
               /\ err' = "Please enter valid numbers"
          ELSE pc' = "vo_uncs" /\ vlist' = list /\ err' = "none"
    /\ UNCHANGED <<raw_eq, expr, todo, values, uncertainties, choice, ulist,
                   calc, out, exc, arg, res>>

\* The length test of line 114 left out.
uncertainties_accepted_any_length(list, vals) == TRUE

\* if len(uncertainties) != len(values): ... continue (line 114)
uncertainties_accepted(list, vals) == Len(list) = Len(vals)

\* values_only_mode, lines 111-154: the list of uncertainties, then the
\* calculation and its output; no handler catches what the calculation raises.
EnterUncertainties(texts) ==
    /\ pc = "vo_uncs"
    /\ LET list == Floats(texts)
       IN IF \E i \in 1..Len(list) : IsExc(list[i])
          THEN /\ err' = "Please enter valid numbers"
               /\ UNCHANGED <<pc, ulist, calc, out, exc>>
          ELSE IF ~uncertainties_accepted(list, vlist)
          THEN /\ err' = "Expected as many uncertainties as values"
               /\ UNCHANGED <<pc, ulist, calc, out, exc>>
          ELSE LET f == values_only_calculation(choice, vlist, list)
               IN /\ ulist' = list
                  /\ calc' = Locals(f)
                  /\ out' = f.out
                  /\ exc' = f.raised
                  /\ pc' = IF f.raised = "none" THEN "return" ELSE "crashed"
                  /\ err' = "none"
    /\ UNCHANGED <<raw_eq, expr, todo, values, uncertainties, choice, vlist, arg, res>>

\* main, lines 229-238: return to the main menu, or say goodbye and return.
ReturnToMenu(answer) ==
    /\ pc = "return"
    /\ IF answer \in {"yes", "y"} THEN pc' = "menu" /\ err' = "none"
       ELSE IF answer \in {"no", "n"} THEN pc' = "exited" /\ err' = "none"
       ELSE pc' = "return" /\ err' = "Please enter yes or no"
    /\ UNCHANGED <<raw_eq, expr, todo, values, uncertainties, choice, vlist, ulist,
                   calc, out, exc, arg, res>>

Next ==
    \/ \E mode \in MenuTexts : ChooseMode(mode)
    \/ \E text \in EquationTexts : EnterEquation(text)
    \/ \E vtext \in ValueTexts, utext \in UncertaintyTexts : EnterVariable(vtext, utext)
    \/ \E answer \in YesNoTexts : AnotherCalculation(answer)
    \/ \E text \in MenuTexts : ChooseOperation(text)
    \/ \E texts \in SeqsUpTo(ListValueTexts, MaxLen) : EnterValues(texts)
    \/ \E texts \in SeqsUpTo(ListUncertaintyTexts, MaxLen) : EnterUncertainties(texts)
    \/ \E answer \in YesNoTexts : ReturnToMenu(answer)

Spec == Init /\ [][Next]_vars

(***************************************************************************)
(* The rounder on its own: arg is a value and a number of significant      *)
(* figures, res the results of applying round_to_n_sig_figs once and then  *)
(* again to its own result.                                                *)
(***************************************************************************)
RoundedValues == {Fin(v) : v \in -MaxRounded..MaxRounded} \cup {PInf, NInf, NaN}

InitRound ==
    /\ Init!1 /\ Init!2 /\ Init!3 /\ Init!4 /\ Init!5 /\ Init!6 /\ Init!7
    /\ Init!8 /\ Init!9 /\ Init!10 /\ Init!11 /\ Init!12 /\ Init!13
    /\ arg \in [value : RoundedValues, n : 1..MaxSigFigs]
    /\ res = <<>>

RoundOnce ==
    /\ res = <<>>
    /\ res' = <<round_to_n_sig_figs(arg.value, arg.n)>>
    /\ UNCHANGED <<pc, raw_eq, expr, todo, values, uncertainties, choice, vlist,
                   ulist, calc, out, err, exc, arg>>

RoundAgain ==
    /\ Len(res) = 1
    /\ res' = Append(res, round_to_n_sig_figs(res[1], arg.n))
    /\ UNCHANGED <<pc, raw_eq, expr, todo, values, uncertainties, choice, vlist,
                   ulist, calc, out, err, exc, arg>>

NextRound == RoundOnce \/ RoundAgain

SpecRound == InitRound /\ [][NextRound]_vars

(***************************************************************************)
(* The two ways to a sum: arg is a list of values and a list of            *)
(* uncertainties >= 0 of the same length, res the outcome of values-only   *)
(* Addition/Subtraction on the lists and of the equation-mode calculation  *)
(* on the formula x1 + ... + xk with the lists bound to x1..xk.            *)
(***************************************************************************)
CrossValues == {Fin(0), Fin(1000), Fin(-1000), Fin(2000), Fin(10000), Fin(20000)}
CrossUncertainties == {Fin(0), Fin(500), Fin(1000), Fin(2000), Fin(5000), PInf}
CrossNames == <<"x1", "x2", "x3", "x4">>

Pending == [raised |-> "pending", val |-> Fin(0), abs_unc |-> Fin(0),
            frac_unc |-> Fin(0), out |-> NoOutput]

RECURSIVE SumFormula(_)
\* The expression parse_expr makes of "x1 + ... + xk".
SumFormula(k) ==
    IF k = 1 THEN Sym(CrossNames[1])
    ELSE MkAdd(SumFormula(k - 1), Sym(CrossNames[k]))

\* The dict that binds list[i] to xi.
Bound(list) == [name \in {CrossNames[i] : i \in 1..Len(list)} |->
                   list[CHOOSE i \in 1..Len(list) : CrossNames[i] = name]]

InitCross ==
    /\ Init!1 /\ Init!2 /\ Init!3 /\ Init!4 /\ Init!5 /\ Init!6 /\ Init!7
    /\ Init!8 /\ Init!9 /\ Init!10 /\ Init!11 /\ Init!12 /\ Init!13
    /\ \E k \in 1..MaxLen :
          arg \in [values : [1..k -> CrossValues],
                   uncertainties : [1..k -> CrossUncertainties]]
    /\ res = [closed |-> Pending, formula |-> Pending]

CrossClosedForm ==
    /\ res.closed = Pending
    /\ res' = [res EXCEPT !.closed =
                  values_only_calculation("1", arg.values, arg.uncertainties)]
    /\ UNCHANGED <<pc, raw_eq, expr, todo, values, uncertainties, choice, vlist,
                   ulist, calc, out, err, exc, arg>>

CrossFormula ==
    /\ res.formula = Pending
    /\ LET k == Len(arg.values)
       IN res' = [res EXCEPT !.formula =
                     equation_calculation(SumFormula(k), SubSeq(CrossNames, 1, k),
                                          Bound(arg.values), Bound(arg.uncertainties))]
    /\ UNCHANGED <<pc, raw_eq, expr, todo, values, uncertainties, choice, vlist,
                   ulist, calc, out, err, exc, arg>>

NextCross == CrossClosedForm \/ CrossFormula

SpecCross == InitCross /\ [][NextCross]_vars

(***************************************************************************)
(* The properties.                                                         *)
(***************************************************************************)
Zero3(o) == o.val = Fin(0) /\ o.abs = Fin(0) /\ o.frac = Fin(0)
AtLeast(a, b) == a.k = "fin" /\ b.k = "fin" /\ a.v >= b.v

\* C1: no error terminates the process: the program keeps prompting, or has
\* exited because the user answered no to "Return to main menu?"; an
\* exception that no handler catches never ends it.
NoErrorTerminatesTheProcess == pc # "crashed"

\* C2 as stated: values-only Addition/Subtraction and the equation-mode
\* calculation of x1 + ... + xk give the same value, absolute uncertainty
\* and fractional uncertainty (or fail together).
ClosedFormSumMatchesFormula ==
    (res.closed # Pending /\ res.formula # Pending)
        => /\ (res.closed.out.kind = "none") = (res.formula.out.kind = "none")
           /\ res.closed.out.val = res.formula.out.val
           /\ res.closed.out.abs = res.formula.out.abs
           /\ res.closed.out.frac = res.formula.out.frac

\* C2 amended: whenever both calculations produce a result, the values are
\* equal, and the absolute and the fractional uncertainty of the closed form
\* (the uncertainties added directly) are at least those of the formula (the
\* uncertainties added in quadrature).
ClosedFormSumBoundsFormula ==
    (res.closed.out.kind = "sum" /\ res.formula.out.kind = "formula")
        => /\ res.closed.out.val = res.formula.out.val
           /\ AtLeast(res.closed.out.abs, res.formula.out.abs)
           /\ AtLeast(res.closed.out.frac, res.formula.out.frac)

ClosedFormSumBoundsFormulaWitness ==
    /\ arg.values = <<Fin(10000), Fin(20000)>>
    /\ arg.uncertainties = <<Fin(1000), Fin(2000)>>
    /\ res.closed.out = Printed("sum", Fin(30000), Fin(3000), Fin(100))
    /\ res.formula.out = Printed("formula", Fin(30000), Fin(2240), Fin(75))

\* The divisor of the formula is zero at the entered values.
DivisorIsZero ==
    \/ raw_eq = "1 / x" /\ IsZero(values["x"])
    \/ raw_eq = "x / y" /\ IsZero(values["y"])

ClosedFormNeedsEqualLengths ==
    /\ pc = "vo_uncs" => Len(vlist) >= 1
    /\ (out.kind \in {"sum", "product"} \/ (pc = "crashed" /\ choice # ""))
          => (Len(vlist) = Len(ulist) /\ Len(vlist) >= 1)

ClosedFormNeedsEqualLengthsWitness ==
    /\ pc = "return" /\ out.kind = "sum"
    /\ Len(vlist) = 2 /\ Len(ulist) = 2

\* The products partial_x * uncertainty_x of the formulas of the model, from
\* the partial derivatives calculus gives: x + y: 1, 1; x - y: 1, -1;
\* x * y: y, x; x ^ 2: 2x; 1 / x: -1/x^2; x / y: 1/y, -x/y^2.
ExpectedTerms ==
    LET x == values["x"]
        ux == uncertainties["x"]
        y == values["y"]
        uy == uncertainties["y"]
        one == Fin(Scale)
    IN CASE raw_eq = "x + y" -> <<ux, uy>>
         [] raw_eq = "x - y" -> <<ux, FMul(Fin(-Scale), uy)>>
         [] raw_eq = "x * y" -> <<FMul(y, ux), FMul(x, uy)>>
         [] raw_eq = "x ^ 2" -> <<FMul(FMul(Fin(2 * Scale), x), ux)>>
         [] raw_eq = "1 / x" -> <<FMul(FMul(Fin(-Scale), FDiv(one, FMul(x, x))), ux)>>
         [] raw_eq = "x / y" -> <<FMul(FDiv(one, y), ux),
                                  FMul(FMul(x, FMul(Fin(-Scale), FDiv(one, FMul(y, y)))), uy)>>

RECURSIVE SumOfSquares(_)
SumOfSquares(terms) ==
    IF terms = <<>> THEN Fin(0)
    ELSE FAdd(FSq(Head(terms)), SumOfSquares(Tail(terms)))

\* C5: in formula mode the absolute uncertainty is the quadrature sum over
\* the bound variables, one term (partial_x * uncertainty_x)^2 for each and
\* no cross terms; the printed absolute uncertainty is that, rounded.
FormulaUncertaintyIsQuadratureSum ==
    out.kind = "formula"
        => /\ calc.abs_unc = FSqrt(SumOfSquares(ExpectedTerms))
           /\ out.abs = round_to_n_sig_figs(FSqrt(SumOfSquares(ExpectedTerms)), 3)

FormulaUncertaintyIsQuadratureSumWitness ==
    /\ pc = "again" /\ raw_eq = "x * y"
    /\ values["x"] = Fin(2000) /\ uncertainties["x"] = Fin(100)
    /\ values["y"] = Fin(3000) /\ uncertainties["y"] = Fin(200)
    /\ out.kind = "formula" /\ out.val = Fin(6000) /\ out.abs = Fin(500)

RECURSIVE ProductFrom(_, _, _)
\* acc * vs[i] * ... * vs[Len(vs)]
ProductFrom(vs, i, acc) ==
    IF i > Len(vs) THEN acc ELSE ProductFrom(vs, i + 1, FMul(acc, vs[i]))

RECURSIVE RelativeSquaresFrom(_, _, _, _)
\* acc + the (us[j] / |vs[j]|)^2 of the j >= i with vs[j] # 0
RelativeSquaresFrom(vs, us, i, acc) ==
    IF i > Len(vs) THEN acc
    ELSE RelativeSquaresFrom(vs, us, i + 1,
             IF IsZero(vs[i]) THEN acc
             ELSE FAdd(acc, FSq(FDiv(us[i], FAbs(vs[i])))))

\* C6: closed-form product: the value is the product of the values, the
\* absolute uncertainty is |value| times the square root of the sum of
\* (u_i / |v_i|)^2 over the terms with v_i # 0; a zero value is no failure
\* (no division by zero), and a list with a zero value gives 0, 0, 0.
ProductClosedForm ==
    /\ choice = "2" => exc # "ZeroDivisionError"
    /\ out.kind = "product"
          => LET value == ProductFrom(vlist, 1, Fin(Scale))
                 relative == FSqrt(RelativeSquaresFrom(vlist, ulist, 1, Fin(0)))
             IN /\ calc.val = value
                /\ calc.abs_unc = FMul(FAbs(value), relative)
                /\ out.val = round_to_n_sig_figs(value, 3)
                /\ out.abs = round_to_n_sig_figs(FMul(FAbs(value), relative), 3)
                /\ (\E i \in 1..Len(vlist) : IsZero(vlist[i])) => Zero3(out)

ProductClosedFormWitness ==
    /\ pc = "return" /\ choice = "2"
    /\ vlist = <<Fin(0), Fin(5000)>> /\ ulist = <<Fin(1000), Fin(500)>>
    /\ out = Printed("product", Fin(0), Fin(0), Fin(0))

\* C7: a formula without free variables asks for no variable input and
\* prints the evaluated value rounded to 3 significant figures, with
\* absolute uncertainty 0 and fractional uncertainty 0.
ConstantFormulaIsRounded ==
    /\ (pc = "inputs" => free_symbols(expr) # {})
    /\ out.kind = "constant"
          => /\ out.val = round_to_n_sig_figs(calc.val, 3)
             /\ out.abs = Fin(0) /\ out.frac = Fin(0)

\* C8: on the formula path and on the closed-form path the fractional
\* uncertainty is the unrounded absolute uncertainty over the absolute
\* unrounded value when that value is not 0, and 0 when it is 0; the printed
\* one is that, rounded on its own.
FractionalFromUnrounded ==
    out.kind \in {"formula", "sum", "product"}
        => LET frac == IF IsZero(calc.val) THEN Fin(0)
                       ELSE FDiv(calc.abs_unc, FAbs(calc.val))
           IN /\ calc.frac_unc = frac
              /\ out.frac = round_to_n_sig_figs(frac, 3)
              /\ out.val = round_to_n_sig_figs(calc.val, 3)
              /\ out.abs = round_to_n_sig_figs(calc.abs_unc, 3)

FractionalFromUnroundedWitness ==
    /\ out.kind = "sum" /\ calc.val = Fin(1004) /\ calc.abs_unc = Fin(5000)
    /\ out = Printed("sum", Fin(1000), Fin(5000), Fin(4980))

FractionalOfZeroValueWitness ==
    /\ out.kind = "sum" /\ calc.val = Fin(0) /\ calc.abs_unc = Fin(1000)
    /\ out.frac = Fin(0)

\* C9: rounding to n significant figures is idempotent, and 0 rounds to 0
\* exactly: rounding the rounded value again at the same n changes nothing.
RoundingIsIdempotent ==
    /\ (Len(res) >= 1 /\ IsZero(arg.value)) => res[1] = Fin(0)
    /\ (Len(res) = 2 /\ ~IsExc(res[1])) => res[2] = res[1]

RoundingIsIdempotentWitness ==
    /\ arg = [value |-> Fin(9996), n |-> 3]
    /\ res = <<Fin(10000), Fin(10000)>>

\* C10: every printed result has absolute uncertainty >= 0 and fractional
\* uncertainty >= 0.
PrintedUncertaintiesNonNegative ==
    out.kind # "none" => (AtLeast(out.abs, Fin(0)) /\ AtLeast(out.frac, Fin(0)))

====
